---- MODULE Spec2Model ----
(***************************************************************************)
(* Model of the storefront proxy of the theme dev server                   *)
(* (src/unnamed/part_000): the request classifier, the request forwarder,  *)
(* the response header patcher and the CDN content rewriter.               *)
(*                                                                         *)
(* Texts (paths, header values, bodies) are sequences of one-character     *)
(* strings, so that startsWith, split, replace and the regular expressions *)
(* of the source are computed character by character.                      *)
(***************************************************************************)
EXTENDS Integers, Sequences, FiniteSets, TLC

VARIABLES
  pc,              \* per request: position of its handler
  event,           \* per request: the inbound H3 event (method, path, headers)
  upstream,        \* per request: the request handed to sendProxy
  response,        \* per request: what the caller receives
  warned,          \* per request: renderWarning was called
  sessionCookies,  \* ctx.session.sessionCookies[SESSION_COOKIE_NAME]
  fetched,         \* per request: how the upstream fetch of sendProxy settled
  observed,        \* history: session values carried by the Set-Cookie values seen so far
  latest,          \* history: session values carried by the last response that carried one
  cdn              \* the content rewriter's run: ctx file sets, input text, outputs

vars == <<pc, event, upstream, fetched, response, warned, sessionCookies, observed, latest, cdn>>

(***************************************************************************)
(* Bounds of the model.                                                    *)
(***************************************************************************)
MaxPathParts == 2
MaxRequests == 2
MaxCookies == 2
MaxCdnParts == 3

(***************************************************************************)
(* JavaScript values and string primitives.                                *)
(***************************************************************************)
\* A header that is absent / a property that is undefined.
undefined == <<"undefined">>

Min(S) == CHOOSE k \in S : \A j \in S : k <= j
Max(S) == CHOOSE k \in S : \A j \in S : k >= j

\* s.startsWith(p, i - 1), positions counted from 1.
StartsWithAt(s, i, p) ==
  /\ i + Len(p) - 1 <= Len(s)
  /\ \A k \in 1..Len(p) : s[i + k - 1] = p[k]

startsWith(s, p) == StartsWithAt(s, 1, p)

endsWith(s, p) == Len(s) >= Len(p) /\ StartsWithAt(s, Len(s) - Len(p) + 1, p)

\* s.indexOf(p, i - 1) + 1: the first position >= i where p occurs, 0 when none.
IndexOfFrom(s, p, i) ==
  LET hits == {k \in i..(Len(s) - Len(p) + 1) : StartsWithAt(s, k, p)}
  IN  IF hits = {} THEN 0 ELSE Min(hits)

includes(s, p) == IndexOfFrom(s, p, 1) # 0

\* s.substring(i - 1)
From(s, i) == SubSeq(s, i, Len(s))

\* s.replaceAll(pat, rep) for a literal pattern.
RECURSIVE ReplaceAllFrom(_, _, _, _)
ReplaceAllFrom(s, pat, rep, i) ==
  LET k == IndexOfFrom(s, pat, i)
  IN  IF k = 0 THEN From(s, i)
      ELSE SubSeq(s, i, k - 1) \o rep \o ReplaceAllFrom(s, pat, rep, k + Len(pat))

replaceAll(s, pat, rep) == ReplaceAllFrom(s, pat, rep, 1)

\* s.split(sep) for a one-character separator: the pieces, in order.
RECURSIVE SplitFrom(_, _, _)
SplitFrom(s, sep, i) ==
  LET k == IndexOfFrom(s, sep, i)
  IN  IF k = 0 THEN <<From(s, i)>>
      ELSE <<SubSeq(s, i, k - 1)>> \o SplitFrom(s, sep, k + 1)

split(s, sep) == SplitFrom(s, sep, 1)

\* array.join(sep)
RECURSIVE join(_, _)
join(parts, sep) ==
  IF parts = <<>> THEN <<>>
  ELSE IF Len(parts) = 1 THEN parts[1]
  ELSE parts[1] \o sep \o join(Tail(parts), sep)

\* The concatenation of a sequence of texts.
Concat(parts) == join(parts, <<>>)

\* All sequences over S of length 1..n.
SeqsUpTo(S, n) == UNION {[1..k -> S] : k \in 1..n}

(***************************************************************************)
(* Constants of the source.                                                *)
(***************************************************************************)
VANITY_CDN_PREFIX == <<"/","c","d","n","/">>
EXTENSION_CDN_PREFIX == <<"/","e","x","t","/","c","d","n","/">>
IGNORED_ENDPOINTS ==
  { <<"/",".","w","e","l","l","-","k","n","o","w","n">>,
    <<"/","s","h","o","p","i","f","y","/","m","o","n","o","r","a","i","l">>,
    <<"/","m","i","n","i","-","p","r","o","f","i","l","e","r","-","r","e","s","o","u","r","c","e","s">>,
    <<"/","w","e","b","-","p","i","x","e","l","s","-","m","a","n","a","g","e","r">>,
    <<"/","w","p","m">>,
    <<"/","s","e","r","v","i","c","e","s","/">> }
SESSION_COOKIE_NAME == <<"_","s","h","o","p","i","f","y","_","e","s","s","e","n","t","i","a","l">>
MAIN_CDN_HOST == <<"c","d","n",".","s","h","o","p","i","f","y",".","c","o","m">>

\* ctx.session.storeFqdn: fixed at start-up, the shop of the spec's examples.
storeFqdn == <<"s","h","o","p",".","m","y","s","h","o","p","i","f","y",".","c","o","m">>

(***************************************************************************)
(* Request classifier.                                                     *)
(***************************************************************************)
\* extname of @shopify/cli-kit/node/path (pathe): /.(\.[^./]+)$/, the last
\* dot of the text and what follows it, when a character stands before the
\* dot and neither a dot nor a slash follows it.
extname(p) ==
  LET dots == {k \in 1..Len(p) : p[k] = "."}
  IN  IF dots = {} THEN <<>>
      ELSE LET d == Max(dots)
           IN  IF /\ d > 1
                  /\ d < Len(p)
                  /\ \A k \in (d + 1)..Len(p) : p[k] # "/"
               THEN From(p, d)
               ELSE <<>>

\* const [pathname] = event.path.split('?')
pathnameOf(path) == split(path, <<"?">>)[1]

\* IGNORED_ENDPOINTS.some((endpoint) => event.path.startsWith(endpoint))
IsIgnoredSkipsServices(path) ==
  \E endpoint \in IGNORED_ENDPOINTS \ {<<"/","s","e","r","v","i","c","e","s","/">>} : startsWith(path, endpoint)

IsIgnored(path) == \E endpoint \in IGNORED_ENDPOINTS : startsWith(path, endpoint)

canProxyRequestNoMethodCheck(method, path, accept) ==
  IF startsWith(path, VANITY_CDN_PREFIX) THEN TRUE
  ELSE IF startsWith(path, EXTENSION_CDN_PREFIX) THEN TRUE
  ELSE LET extension == extname(pathnameOf(path))
           acceptsType == IF accept = undefined THEN <<"*","/","*">> ELSE accept
       IN  IF extension = <<".","h","t","m","l">> \/ includes(acceptsType, <<"t","e","x","t","/","h","t","m","l">>) THEN FALSE
           ELSE extension # <<>> \/ acceptsType # <<"*","/","*">>

canProxyRequestKeepsQuery(method, path, accept) ==
  IF method # "GET" THEN TRUE
  ELSE IF startsWith(path, VANITY_CDN_PREFIX) THEN TRUE
  ELSE IF startsWith(path, EXTENSION_CDN_PREFIX) THEN TRUE
  ELSE LET extension == extname(path)
           acceptsType == IF accept = undefined THEN <<"*","/","*">> ELSE accept
       IN  IF extension = <<".","h","t","m","l">> \/ includes(acceptsType, <<"t","e","x","t","/","h","t","m","l">>) THEN FALSE
           ELSE extension # <<>> \/ acceptsType # <<"*","/","*">>

canProxyRequest(method, path, accept) ==
  IF method # "GET" THEN TRUE
  ELSE IF startsWith(path, VANITY_CDN_PREFIX) THEN TRUE
  ELSE IF startsWith(path, EXTENSION_CDN_PREFIX) THEN TRUE
  ELSE LET extension == extname(pathnameOf(path))
           acceptsType == IF accept = undefined THEN <<"*","/","*">> ELSE accept
       IN  IF extension = <<".","h","t","m","l">> \/ includes(acceptsType, <<"t","e","x","t","/","h","t","m","l">>) THEN FALSE
           ELSE extension # <<>> \/ acceptsType # <<"*","/","*">>

(***************************************************************************)
(* Request forwarder: the upstream URL.                                    *)
(***************************************************************************)
\* The position of the first character of s at or after i that is in chars,
\* Len(s) + 1 when there is none.
FirstOf(s, chars, i) ==
  LET hits == {k \in i..Len(s) : s[k] \in chars}
  IN  IF hits = {} THEN Len(s) + 1 ELSE Min(hits)

\* The position of the first character of s at or after i that is not c.
SkipChar(s, c, i) ==
  LET hits == {k \in i..Len(s) : s[k] # c}
  IN  IF hits = {} THEN Len(s) + 1 ELSE Min(hits)

\* The pairs of a query string (without its "?"), as URLSearchParams reads
\* it: pieces between "&", empty pieces dropped, each cut at its first "=".
RECURSIVE ParsePairs(_)
ParsePairs(pieces) ==
  IF pieces = <<>> THEN <<>>
  ELSE LET piece == Head(pieces)
           eq == IndexOfFrom(piece, <<"=">>, 1)
           pair == IF eq = 0 THEN <<piece, <<>>>>
                   ELSE <<SubSeq(piece, 1, eq - 1), From(piece, eq + 1)>>
       IN  IF piece = <<>> THEN ParsePairs(Tail(pieces))
           ELSE <<pair>> \o ParsePairs(Tail(pieces))

ParseQuery(q) == ParsePairs(split(q, <<"&">>))

\* new URL(path, `https://${host}`) for a path that starts with "/": a path
\* that starts with "//" is a scheme-relative reference and names its own
\* host; the text after the first "?" is the query. ok is FALSE where the
\* constructor throws (no host). The paths of the model hold no dot segment,
\* no "#" and no character that the parser would escape.
NewURL(path, host) ==
  LET schemeRelative == startsWith(path, <<"/","/">>)
      hostStart == SkipChar(path, "/", 1)
      hostEnd == FirstOf(path, {"/", "?"}, hostStart)
      rest == IF schemeRelative THEN From(path, hostEnd) ELSE path
      q == IndexOfFrom(rest, <<"?">>, 1)
      beforeQuery == IF q = 0 THEN rest ELSE SubSeq(rest, 1, q - 1)
  IN  [ ok |-> ~schemeRelative \/ hostEnd > hostStart,
        protocol |-> "https:",
        host |-> IF schemeRelative THEN SubSeq(path, hostStart, hostEnd - 1) ELSE host,
        pathname |-> IF beforeQuery = <<>> THEN <<"/">> ELSE beforeQuery,
        searchParams |-> IF q = 0 THEN <<>> ELSE ParseQuery(From(rest, q + 1)) ]

\* url.searchParams.set(name, value): the first pair of that name takes the
\* value and the others of that name are removed; appended when there is none.
RECURSIVE DropName(_, _)
DropName(params, name) ==
  IF params = <<>> THEN <<>>
  ELSE IF Head(params)[1] = name THEN DropName(Tail(params), name)
  ELSE <<Head(params)>> \o DropName(Tail(params), name)

SearchParamsSet(params, name, value) ==
  LET hits == {k \in 1..Len(params) : params[k][1] = name}
  IN  IF hits = {} THEN Append(params, <<name, value>>)
      ELSE LET k == Min(hits)
           IN  SubSeq(params, 1, k - 1) \o <<(<<name, value>>)>>
                 \o DropName(From(params, k + 1), name)

\* url.origin
Origin(url) == <<"h","t","t","p","s",":","/","/">> \o url.host

\* The path, host and URL of proxyStorefrontRequest.
UpstreamPath(path) == replaceAll(path, EXTENSION_CDN_PREFIX, <<"/">>)

UpstreamHost(path) ==
  IF startsWith(path, EXTENSION_CDN_PREFIX) THEN MAIN_CDN_HOST ELSE storeFqdn

UpstreamURL(path) ==
  LET url == NewURL(UpstreamPath(path), UpstreamHost(path))
  IN  [url EXCEPT !.searchParams =
         SearchParamsSet(SearchParamsSet(@, <<"_","f","d">>, <<"0">>), <<"p","b">>, <<"0">>)]

(***************************************************************************)
(* Request forwarder: headers and cookies.                                 *)
(***************************************************************************)
HOP_BY_HOP_HEADERS ==
  { "connection", "keep-alive", "proxy-authenticate", "proxy-authorization",
    "te", "trailer", "transfer-encoding", "upgrade", "content-security-policy" }

\* getProxyRequestHeaders of h3: the inbound headers but those h3 never forwards.
H3IgnoredHeaders ==
  { "transfer-encoding", "accept-encoding", "connection", "keep-alive",
    "upgrade", "expect", "host", "accept" }

\* getProxyStorefrontHeaders: the names of the inbound headers passed on.
getProxyStorefrontHeadersKeepsUpgradeInsecure(headers) ==
  (headers \ H3IgnoredHeaders) \ HOP_BY_HOP_HEADERS

getProxyStorefrontHeaders(headers) ==
  ((headers \ H3IgnoredHeaders) \ HOP_BY_HOP_HEADERS) \ {"upgrade-insecure-requests"}

\* Leading spaces removed.
TrimStart(s) == From(s, SkipChar(s, " ", 1))

\* The name=value pairs of a Cookie header value.
RECURSIVE ParseCookiePieces(_)
ParseCookiePieces(pieces) ==
  IF pieces = <<>> THEN <<>>
  ELSE LET piece == TrimStart(Head(pieces))
           eq == IndexOfFrom(piece, <<"=">>, 1)
       IN  IF eq = 0 THEN ParseCookiePieces(Tail(pieces))
           ELSE <<(<<SubSeq(piece, 1, eq - 1), From(piece, eq + 1)>>)>>
                  \o ParseCookiePieces(Tail(pieces))

parseCookies(text) == ParseCookiePieces(split(text, <<";">>))

RECURSIVE serializeCookies(_)
serializeCookies(pairs) ==
  IF pairs = <<>> THEN <<>>
  ELSE LET one == Head(pairs)[1] \o <<"=">> \o Head(pairs)[2]
       IN  IF Len(pairs) = 1 THEN one ELSE one \o <<";"," ">> \o serializeCookies(Tail(pairs))

\* buildCookies of storefront-renderer: the caller's cookies with the session
\* cookie of ctx.session laid over them.
buildCookies(session, cookieHeader) ==
  LET cookies == parseCookies(IF cookieHeader = undefined THEN <<>> ELSE cookieHeader)
  IN  serializeCookies(IF session = undefined THEN cookies
                       ELSE SearchParamsSet(cookies, SESSION_COOKIE_NAME, session))

(***************************************************************************)
(* Response header patcher: Set-Cookie.                                    *)
(***************************************************************************)
UpperCase == <<"A","B","C","D","E","F","G","H","I","J","K","L","M",
               "N","O","P","Q","R","S","T","U","V","W","X","Y","Z">>
LowerCase == <<"a","b","c","d","e","f","g","h","i","j","k","l","m",
               "n","o","p","q","r","s","t","u","v","w","x","y","z">>

toLowerChar(c) ==
  IF \E k \in 1..26 : UpperCase[k] = c
  THEN LowerCase[CHOOSE k \in 1..26 : UpperCase[k] = c]
  ELSE c

toLowerCase(s) == [k \in 1..Len(s) |-> toLowerChar(s[k])]

WhiteSpace == {" ", "\t", "\n", "\r"}

\* The position after the white space that starts at i.
SkipWhiteSpace(s, i) ==
  LET hits == {k \in i..Len(s) : s[k] \notin WhiteSpace}
  IN  IF hits = {} THEN Len(s) + 1 ELSE Min(hits)

\* value.replace(domainRE, '') with
\* domainRE = new RegExp(`Domain=${storeFqdn}[dots escaped];\\s*`, 'gi').
\* low is value in lower case: the flag i makes the match case-insensitive.
RECURSIVE RemoveDomainFrom(_, _, _, _)
RemoveDomainFrom(value, low, pat, i) ==
  LET k == IndexOfFrom(low, pat, i)
  IN  IF k = 0 THEN From(value, i)
      ELSE SubSeq(value, i, k - 1)
             \o RemoveDomainFrom(value, low, pat, SkipWhiteSpace(value, k + Len(pat)))

DomainPattern == toLowerCase(<<"D","o","m","a","i","n","=">> \o storeFqdn \o <<";">>)

PatchOneCookie(value) == RemoveDomainFrom(value, toLowerCase(value), DomainPattern, 1)

patchCookieDomains(cookieHeader) ==
  [k \in 1..Len(cookieHeader) |-> PatchOneCookie(cookieHeader[k])]

\* setCookieHeader.join(',').match(SESSION_COOKIE_REGEXP)?.[1] with
\* SESSION_COOKIE_REGEXP = /_shopify_essential=([^;]*)(;|$)/: the text between
\* the first "_shopify_essential=" and the next ";" (or the end) of the
\* joined values; undefined without a match.
SessionCookieMatch(setCookieHeader) ==
  LET joined == join(setCookieHeader, <<",">>)
      name == SESSION_COOKIE_NAME \o <<"=">>
      k == IndexOfFrom(joined, name, 1)
  IN  IF k = 0 THEN undefined
      ELSE SubSeq(joined, k + Len(name), FirstOf(joined, {";"}, k + Len(name)) - 1)

\* The value patchProxiedResponseHeaders leaves in ctx.session.sessionCookies.
\* An empty match is falsy and is not stored.
PatchedSession(current, setCookieHeader) ==
  IF setCookieHeader = <<>> THEN current
  ELSE LET latestShopifyEssential == SessionCookieMatch(setCookieHeader)
       IN  IF latestShopifyEssential \in {undefined, <<>>} THEN current
           ELSE latestShopifyEssential

(***************************************************************************)
(* Response header patcher: Location.                                      *)
(***************************************************************************)
Alpha == {UpperCase[k] : k \in 1..26} \cup {LowerCase[k] : k \in 1..26}

Digits == {"0", "1", "2", "3", "4", "5", "6", "7", "8", "9"}

\* The position of the ":" that ends a scheme at the start of input, 0 when
\* input starts with no scheme.
SchemeEnd(input) ==
  LET c == IndexOfFrom(input, <<":">>, 1)
  IN  IF /\ c > 1
         /\ input[1] \in Alpha
         /\ \A k \in 2..(c - 1) : input[k] \in Alpha \cup Digits \cup {"+", "-", "."}
      THEN c ELSE 0

\* The special schemes of the URL standard that have a host, and their
\* default ports.
DefaultPort(scheme) ==
  CASE scheme = <<"h","t","t","p","s">> -> <<"4","4","3">>
    [] scheme = <<"h","t","t","p">> -> <<"8","0">>
    [] scheme = <<"w","s","s">> -> <<"4","4","3">>
    [] scheme = <<"w","s">> -> <<"8","0">>
    [] scheme = <<"f","t","p">> -> <<"2","1">>
    [] OTHER -> <<>>

IsSpecial(scheme) == DefaultPort(scheme) # <<>>

\* The base URL of patchProxiedResponseHeaders.
LOCATION_BASE_HOST == <<"s","h","o","p","i","f","y",".","d","e","v">>

\* The authority that starts at position i of main (after the slashes): the
\* credentials before the last at sign, the host in lower case, the port
\* unless it is the default of the scheme, and the path that follows, a
\* slash when empty. ok is FALSE where the constructor throws: no host, or a port that
\* is not a number.
ParseAuthority(scheme, main, i) ==
  LET authEnd == FirstOf(main, {"/"}, i)
      auth == SubSeq(main, i, authEnd - 1)
      ats == {k \in 1..Len(auth) : auth[k] = "@"}
      at == IF ats = {} THEN 0 ELSE Max(ats)
      hostport == From(auth, at + 1)
      colon == IndexOfFrom(hostport, <<":">>, 1)
      host == IF colon = 0 THEN hostport ELSE SubSeq(hostport, 1, colon - 1)
      port == IF colon = 0 THEN <<>> ELSE From(hostport, colon + 1)
      path == From(main, authEnd)
  IN  [ ok |-> host # <<>> /\ \A k \in 1..Len(port) : port[k] \in Digits,
        credentials |-> IF at <= 1 THEN <<>> ELSE SubSeq(auth, 1, at - 1),
        host |-> toLowerCase(host),
        port |-> IF port = DefaultPort(scheme) THEN <<>> ELSE port,
        pathname |-> IF path = <<>> THEN <<"/">> ELSE path ]

\* A reference without a scheme, resolved against https://shopify.dev/.
ParseRelative(main) ==
  IF startsWith(main, <<"/","/">>) THEN ParseAuthority(<<"h","t","t","p","s">>, main, 3)
  ELSE [ ok |-> TRUE, credentials |-> <<>>, host |-> LOCATION_BASE_HOST,
         port |-> <<>>,
         pathname |-> IF startsWith(main, <<"/">>) THEN main ELSE <<"/">> \o main ]

\* new URL(locationHeader, 'https://shopify.dev'). The text after the first
\* "#" is the fragment, the text after the first "?" before it the query,
\* and the rest is read by its scheme: none, or https without "//" after it,
\* is a reference relative to the base; another special scheme is followed
\* by its authority after any number of slashes; any other scheme keeps the
\* text after its colon as it stands and has an opaque origin. The values of
\* the model hold no dot segment, no backslash, no white space and no
\* character that the parser would escape.
LocationURL(locationHeader) ==
  LET f == IndexOfFrom(locationHeader, <<"#">>, 1)
      noFragment == IF f = 0 THEN locationHeader ELSE SubSeq(locationHeader, 1, f - 1)
      q == IndexOfFrom(noFragment, <<"?">>, 1)
      main == IF q = 0 THEN noFragment ELSE SubSeq(noFragment, 1, q - 1)
      s == SchemeEnd(main)
      scheme == IF s = 0 THEN <<"h","t","t","p","s">> ELSE toLowerCase(SubSeq(main, 1, s - 1))
      rest == From(main, s + 1)
      relative == s = 0 \/ (scheme = <<"h","t","t","p","s">> /\ ~startsWith(rest, <<"/","/">>))
      parsed ==
        IF relative THEN ParseRelative(rest)
        ELSE IF IsSpecial(scheme) THEN ParseAuthority(scheme, rest, SkipChar(rest, "/", 1))
        ELSE [ ok |-> TRUE, credentials |-> <<>>, host |-> <<>>, port |-> <<>>,
               pathname |-> rest ]
  IN  [ ok |-> parsed.ok,
        scheme |-> scheme,
        credentials |-> parsed.credentials,
        host |-> parsed.host,
        port |-> parsed.port,
        pathname |-> parsed.pathname,
        searchParams |-> IF q = 0 THEN <<>> ELSE ParseQuery(From(noFragment, q + 1)),
        hasFragment |-> f # 0,
        fragment |-> IF f = 0 THEN <<>> ELSE From(locationHeader, f + 1) ]

\* url.searchParams.delete(name): the pairs of that name are removed and the
\* query of the URL is written again from the pairs that are left.
SearchParamsDelete(url, name) ==
  [url EXCEPT !.searchParams = DropName(@, name)]

\* The query string of a list of pairs: name=value joined by "&".
SerializeQuery(params) ==
  join([k \in 1..Len(params) |-> params[k][1] \o <<"=">> \o params[k][2]], <<"&">>)

\* url.origin: scheme, host and port of a special scheme, "null" otherwise.
UrlOrigin(url) ==
  IF IsSpecial(url.scheme)
  THEN url.scheme \o <<":","/","/">> \o url.host
         \o (IF url.port = <<>> THEN <<>> ELSE <<":">> \o url.port)
  ELSE <<"n","u","l","l">>

\* url.href
Href(url) ==
  (IF IsSpecial(url.scheme)
   THEN url.scheme \o <<":","/","/">>
          \o (IF url.credentials = <<>> THEN <<>> ELSE url.credentials \o <<"@">>)
          \o url.host
          \o (IF url.port = <<>> THEN <<>> ELSE <<":">> \o url.port)
          \o url.pathname
   ELSE url.scheme \o <<":">> \o url.pathname)
  \o (IF url.searchParams = <<>> THEN <<>> ELSE <<"?">> \o SerializeQuery(url.searchParams))
  \o (IF url.hasFragment THEN <<"#">> \o url.fragment ELSE <<>>)

\* s.replace(pat, rep) for a literal pattern: the first occurrence only.
replace(s, pat, rep) ==
  LET k == IndexOfFrom(s, pat, 1)
  IN  IF k = 0 THEN s ELSE SubSeq(s, 1, k - 1) \o rep \o From(s, k + Len(pat))

\* The Location that patchProxiedResponseHeaders sets for locationHeader.
PatchedLocation(locationHeader) ==
  LET url == SearchParamsDelete(SearchParamsDelete(LocationURL(locationHeader), <<"_","f","d">>), <<"p","b">>)
  IN  replace(Href(url), UrlOrigin(url), <<>>)

\* Whether new URL throws on the Location of a response.
LocationThrows(locationHeader) ==
  locationHeader \notin {undefined, <<>>} /\ ~LocationURL(locationHeader).ok

(***************************************************************************)
(* Content rewriter: injectCdnProxy.                                       *)
(***************************************************************************)
\* The start of a match of (https?:)? followed by a text found at k, when
\* the scan may not start before i: the scheme is part of the match when it
\* stands right before k.
SchemeStart(s, i, k) ==
  IF k - 6 >= i /\ StartsWithAt(s, k - 6, <<"h","t","t","p","s",":">>) THEN k - 6
  ELSE IF k - 5 >= i /\ StartsWithAt(s, k - 5, <<"h","t","t","p",":">>) THEN k - 5
  ELSE k

\* content.replace(vanityCdnRE, VANITY_CDN_PREFIX) with
\* vanityCdnRE = new RegExp(`(https?:)?//${storeFqdn}[dots escaped]/cdn/`, 'g')
VanityCdnBody == <<"/","/">> \o storeFqdn \o VANITY_CDN_PREFIX

RECURSIVE ReplaceVanityFrom(_, _)
ReplaceVanityFrom(s, i) ==
  LET k == IndexOfFrom(s, VanityCdnBody, i)
  IN  IF k = 0 THEN From(s, i)
      ELSE SubSeq(s, i, SchemeStart(s, i, k) - 1) \o VANITY_CDN_PREFIX
             \o ReplaceVanityFrom(s, k + Len(VanityCdnBody))

ReplaceVanityCdn(content) == ReplaceVanityFrom(content, 1)

\* mainCdnRE =
\*   /(?:https?:)?\/\/cdn\.shopify\.com\/(.*?\/(assets\/[^?">]+)(?:\?|"|>|$))/g
MainCdnBody == <<"/","/">> \o MAIN_CDN_HOST \o <<"/">>
AssetsDir == <<"a","s","s","e","t","s","/">>
UrlEnd == {"?", "\"", ">"}
LineTerminators == {"\n", "\r"}

\* With the host matched up to position a - 1: the least j >= a where
\* "/assets/" and one more character of the key stand, with no line
\* terminator in between (.*? is lazy, and . matches none); 0 when none.
AssetSlash(s, a) ==
  LET hits == {j \in a..Len(s) :
                 /\ s[j] = "/"
                 /\ StartsWithAt(s, j + 1, AssetsDir)
                 /\ j + Len(AssetsDir) + 1 <= Len(s)
                 /\ s[j + Len(AssetsDir) + 1] \notin UrlEnd
                 /\ \A n \in a..(j - 1) : s[n] \notin LineTerminators}
  IN  IF hits = {} THEN 0 ELSE Min(hits)

\* The leftmost match of mainCdnRE in s that starts at or after i:
\* found, its first and last positions, and the two groups. [^?">]+ is
\* greedy: the key runs to the next ?, " or >, which the match takes with
\* it, or to the end of the text.
RECURSIVE MainCdnMatch(_, _)
MainCdnMatch(s, i) ==
  LET k == IndexOfFrom(s, MainCdnBody, i)
      a == k + Len(MainCdnBody)
      j == AssetSlash(s, a)
      e == FirstOf(s, UrlEnd, j + Len(AssetsDir) + 1)
      last == IF e <= Len(s) THEN e ELSE Len(s)
  IN  IF k = 0 THEN [found |-> FALSE, first |-> 0, last |-> 0, pathname |-> <<>>, matchedAsset |-> <<>>]
      ELSE IF j = 0 THEN MainCdnMatch(s, k + 1)
      ELSE [ found |-> TRUE,
             first |-> SchemeStart(s, i, k),
             last |-> last,
             pathname |-> SubSeq(s, a, last),
             matchedAsset |-> SubSeq(s, j + 1, e - 1) ]

\* lookupMimeType of @shopify/cli-kit/node/mimes (mrmime): by the text after
\* the last dot, in lower case.
ImageExtensions == { <<"p","n","g">>, <<"j","p","g">>, <<"j","p","e","g">>, <<"g","i","f">>, <<"s","v","g">>, <<"w","e","b","p">>, <<"a","v","i","f">>, <<"i","c","o">> }

lookupMimeType(fileName) ==
  LET tmp == toLowerCase(fileName)
      dots == {k \in 1..Len(tmp) : tmp[k] = "."}
      ext == IF dots = {} THEN tmp ELSE From(tmp, Max(dots) + 1)
  IN  IF ext \in ImageExtensions THEN <<"i","m","a","g","e","/">> \o ext
      ELSE IF ext = <<"c","s","s">> THEN <<"t","e","x","t","/","c","s","s">>
      ELSE IF ext = <<"j","s">> THEN <<"t","e","x","t","/","j","a","v","a","s","c","r","i","p","t">>
      ELSE <<"a","p","p","l","i","c","a","t","i","o","n","/","o","c","t","e","t","-","s","t","r","e","a","m">>

\* new Set([...files.keys()].filter((key) => key.startsWith('assets')))
ExistingAssets(files) == {key \in files : startsWith(key, <<"a","s","s","e","t","s">>)}

\* The callback of content.replace(mainCdnRE, ...).
MainCdnReplacementThemeFirst(matchedUrl, pathname, matchedAsset, themeFiles, extFiles) ==
  LET isLocalAsset == matchedAsset \in ExistingAssets(themeFiles)
      isLocalExtAsset ==
        matchedAsset \in ExistingAssets(extFiles) /\ startsWith(pathname, <<"e","x","t","e","n","s","i","o","n","s","/">>)
      isImage == startsWith(lookupMimeType(matchedAsset), <<"i","m","a","g","e","/">>)
  IN  IF isLocalAsset THEN VANITY_CDN_PREFIX \o pathname
      ELSE IF isLocalExtAsset THEN EXTENSION_CDN_PREFIX \o pathname
      ELSE IF isImage THEN matchedUrl
      ELSE matchedUrl

MainCdnReplacement(matchedUrl, pathname, matchedAsset, themeFiles, extFiles) ==
  LET isLocalAsset == matchedAsset \in ExistingAssets(themeFiles)
      isLocalExtAsset ==
        matchedAsset \in ExistingAssets(extFiles) /\ startsWith(pathname, <<"e","x","t","e","n","s","i","o","n","s","/">>)
      isImage == startsWith(lookupMimeType(matchedAsset), <<"i","m","a","g","e","/">>)
  IN  IF isImage THEN matchedUrl
      ELSE IF isLocalExtAsset THEN EXTENSION_CDN_PREFIX \o pathname
      ELSE IF isLocalAsset THEN VANITY_CDN_PREFIX \o pathname
      ELSE matchedUrl

\* The calls of the callback on s from position i on, in order: what each
\* was given and what it returned.
RECURSIVE MainCdnCalls(_, _, _, _)
MainCdnCalls(s, i, themeFiles, extFiles) ==
  LET m == MainCdnMatch(s, i)
      matchedUrl == SubSeq(s, m.first, m.last)
  IN  IF ~m.found THEN <<>>
      ELSE <<[ first |-> m.first,
               last |-> m.last,
               matchedUrl |-> matchedUrl,
               pathname |-> m.pathname,
               matchedAsset |-> m.matchedAsset,
               result |-> MainCdnReplacement(matchedUrl, m.pathname, m.matchedAsset,
                                             themeFiles, extFiles) ]>>
             \o MainCdnCalls(s, m.last + 1, themeFiles, extFiles)

\* s from position i on, with every match replaced by its call's result.
RECURSIVE Splice(_, _, _)
Splice(s, i, calls) ==
  IF calls = <<>> THEN From(s, i)
  ELSE SubSeq(s, i, Head(calls).first - 1) \o Head(calls).result
         \o Splice(s, Head(calls).last + 1, Tail(calls))

injectCdnProxy(originalContent, themeFiles, extFiles) ==
  LET content == ReplaceVanityCdn(originalContent)
  IN  Splice(content, 1, MainCdnCalls(content, 1, themeFiles, extFiles))

(***************************************************************************)
(* Content rewriter: patchBaseUrlAttributes.                               *)
(***************************************************************************)
\* `http://${ctx.options.host}:${ctx.options.port}`
newBaseUrl == <<"h","t","t","p",":","/","/","1","2","7",".","0",".","0",".","1",":","9","2","9","2">>

DATA_BASE_URL == <<"d","a","t","a","-","b","a","s","e","-","u","r","l","=">>

Quotes == {"\"", "'"}

\* Group 1 of dataBaseUrlRE at position p, ((?:https?:)?//<store domain>):
\* the position after it, 0 when it does not match there.
BaseUrlGroupEnd(html, p) ==
  LET hostStart == IF StartsWithAt(html, p, <<"h","t","t","p","s",":">>) THEN p + 6
                   ELSE IF StartsWithAt(html, p, <<"h","t","t","p",":">>) THEN p + 5
                   ELSE p
      target == <<"/","/">> \o storeFqdn
  IN  IF StartsWithAt(html, hostStart, target) THEN hostStart + Len(target) ELSE 0

\* dataBaseUrlRE matches at k: data-base-url=, a quote, group 1, and a quote
\* of either kind somewhere after it ([^"']*? stops at the first one).
BaseUrlMatchAt(html, k) ==
  LET quote == k + Len(DATA_BASE_URL)
  IN  /\ StartsWithAt(html, k, DATA_BASE_URL)
      /\ quote <= Len(html)
      /\ html[quote] \in Quotes
      /\ BaseUrlGroupEnd(html, quote + 1) # 0
      /\ FirstOf(html, Quotes, BaseUrlGroupEnd(html, quote + 1)) <= Len(html)

\* html.replace(dataBaseUrlRE, (match, m1) => match.replace(m1, newBaseUrl))
\* from position i on: in every match, from left to right, group 1 gives way
\* to newBaseUrl (group 1 occurs first in the match where it was matched).
RECURSIVE PatchBaseUrlFrom(_, _)
PatchBaseUrlFrom(html, i) ==
  LET starts == {k \in i..Len(html) : BaseUrlMatchAt(html, k)}
  IN  IF starts = {} THEN From(html, i)
      ELSE LET k == Min(starts)
               quote == k + Len(DATA_BASE_URL)
               groupEnd == BaseUrlGroupEnd(html, quote + 1)
               matchEnd == FirstOf(html, Quotes, groupEnd)
           IN  SubSeq(html, i, quote) \o newBaseUrl \o SubSeq(html, groupEnd, matchEnd)
                 \o PatchBaseUrlFrom(html, matchEnd + 1)

patchBaseUrlAttributes(html) == PatchBaseUrlFrom(html, 1)

(***************************************************************************)
(* State of a request.                                                     *)
(***************************************************************************)
NoEvent ==
  [ method |-> "", path |-> <<>>, accept |-> undefined, cookie |-> undefined,
    headers |-> {}, ip |-> undefined ]

NoURL ==
  [ ok |-> FALSE, protocol |-> "", host |-> <<>>, pathname |-> <<>>,
    searchParams |-> <<>> ]

\* session: the value of ctx.session.sessionCookies that buildCookies read.
NoUpstream ==
  [ sent |-> FALSE, method |-> "", url |-> NoURL, headers |-> {},
    xForwardedFor |-> undefined, referer |-> <<>>, cookie |-> <<>>,
    session |-> undefined ]

NoError == [ hasStatus |-> FALSE, statusCode |-> 0 ]

\* kind: "none" (not settled), "response" (the fetch resolved with an HTTP
\* response), "rejected" (the fetch, or sendProxy after it, threw error).
NotFetched ==
  [ kind |-> "none", status |-> 0, setCookie |-> <<>>, error |-> NoError,
    headers |-> {}, link |-> undefined, location |-> undefined, body |-> <<>> ]

\* kind: "none" (nothing sent yet), "mock204" (the handler returned null),
\* "next" (the handler returned undefined: the next handler of the server
\* renders the page), "relay" (the upstream response, patched), "error"
\* (sendError, or the server's answer to a handler that threw).
\* headers: the names of the headers of the response besides Link, Location
\* and Set-Cookie, which have their own fields.
NoResponse ==
  [ kind |-> "none", status |-> 0, setCookie |-> <<>>,
    headers |-> {}, link |-> undefined, location |-> undefined, body |-> <<>> ]

\* The request proxyStorefrontRequest hands to sendProxy.
OutboundRequest(e, session) ==
  LET url == UpstreamURL(e.path)
  IN  [ sent |-> TRUE,
        method |-> e.method,
        url |-> url,
        headers |-> getProxyStorefrontHeaders(e.headers),
        xForwardedFor |-> e.ip,
        referer |-> Origin(url),
        cookie |-> buildCookies(session, e.cookie),
        session |-> session ]

\* The session value a single Set-Cookie value carries: the value of its
\* name=value pair when the name is the session cookie's, else undefined.
CarriedSession(value) ==
  LET pair == split(value, <<";">>)[1]
      eq == IndexOfFrom(pair, <<"=">>, 1)
  IN  IF eq # 0 /\ SubSeq(pair, 1, eq - 1) = SESSION_COOKIE_NAME
      THEN From(pair, eq + 1)
      ELSE undefined

CarriedSessions(setCookieHeader) ==
  {CarriedSession(setCookieHeader[k]) : k \in 1..Len(setCookieHeader)} \ {undefined}

(***************************************************************************)
(* Actions.                                                                *)
(***************************************************************************)
\* getProxyHandler on the arrival of request r with event e, up to the call
\* of sendProxy (the first suspension point of the handler).
HandleRequest(r, e) ==
  /\ pc[r] = "idle"
  /\ event' = [event EXCEPT ![r] = e]
  /\ IF IsIgnored(e.path)
     THEN \* Mock successful status 204 response
          /\ pc' = [pc EXCEPT ![r] = "mocked"]
          /\ response' = [response EXCEPT ![r] =
               [NoResponse EXCEPT !.kind = "mock204", !.status = 204]]
          /\ UNCHANGED upstream
     ELSE IF canProxyRequest(e.method, e.path, e.accept)
     THEN IF UpstreamURL(e.path).ok
          THEN /\ pc' = [pc EXCEPT ![r] = "proxying"]
               /\ upstream' = [upstream EXCEPT ![r] = OutboundRequest(e, sessionCookies)]
               /\ UNCHANGED response
          ELSE \* new URL throws: the handler rejects and the server answers 500
               /\ pc' = [pc EXCEPT ![r] = "threw"]
               /\ response' = [response EXCEPT ![r] =
                    [NoResponse EXCEPT !.kind = "error", !.status = 500]]
               /\ UNCHANGED upstream
     ELSE /\ pc' = [pc EXCEPT ![r] = "next"]
          /\ response' = [response EXCEPT ![r] = [NoResponse EXCEPT !.kind = "next"]]
          /\ UNCHANGED upstream
  /\ UNCHANGED <<fetched, warned, sessionCookies, observed, latest, cdn>>

\* The names of the response headers sendProxy of h3 copies to the caller's
\* response: all but content-encoding and content-length.
SendProxyHeaders(headers) == headers \ {"content-encoding", "content-length"}

\* clearResponseHeaders(event, headerNames)
clearResponseHeaders(headers, headerNames) == headers \ headerNames

\* The Link that patchProxiedResponseHeaders sets: the content rewriter on
\* the Link of the response, with the files of ctx.
PatchedLink(linkHeader) ==
  IF linkHeader \in {undefined, <<>>} THEN linkHeader
  ELSE injectCdnProxy(linkHeader, cdn.themeFiles, cdn.extFiles)

\* sendProxy copies the status and the headers of the upstream response res
\* to the caller's response, onResponse (patchProxiedResponseHeaders) patches
\* them and harvests the session cookie, and the body is streamed back.
Relay(r, res) ==
  /\ pc' = [pc EXCEPT ![r] = "relayed"]
  /\ response' = [response EXCEPT ![r] =
       [ kind |-> "relay",
         status |-> res.status,
         setCookie |-> patchCookieDomains(res.setCookie),
         headers |-> clearResponseHeaders(SendProxyHeaders(res.headers), HOP_BY_HOP_HEADERS),
         link |-> PatchedLink(res.link),
         location |-> IF res.location \in {undefined, <<>>} THEN res.location
                      ELSE PatchedLocation(res.location),
         body |-> res.body ]]
  /\ sessionCookies' = PatchedSession(sessionCookies, res.setCookie)
  /\ observed' = observed \cup CarriedSessions(res.setCookie)
  /\ latest' = IF CarriedSessions(res.setCookie) = {} THEN latest
               ELSE CarriedSessions(res.setCookie)
  /\ UNCHANGED warned

\* The catch of proxyStorefrontRequest.
ShouldWarnWhateverThePath(path, error) == error.hasStatus /\ error.statusCode >= 500

ShouldWarn(path, error) ==
  /\ error.hasStatus
  /\ error.statusCode >= 500
  /\ ~endsWith(pathnameOf(path), <<".","j","s",".","m","a","p">>)

\* sendError answers with the status of the error, 500 when it has none.
Catch(r, error) ==
  /\ pc' = [pc EXCEPT ![r] = "failed"]
  /\ warned' = [warned EXCEPT ![r] = ShouldWarn(event[r].path, error)]
  /\ response' = [response EXCEPT ![r] =
       [NoResponse EXCEPT !.kind = "error",
                          !.status = IF error.hasStatus THEN error.statusCode ELSE 500]]
  /\ UNCHANGED <<sessionCookies, observed, latest>>

\* Whether the fetch of sendProxy resolves with the HTTP response res. h3
\* calls the platform fetch, which resolves whatever the status: the option
\* ignoreResponseError of fetchOptions is one of ofetch and is not read.
FetchResolvesOnSuccessOnly(res) == res.status < 400

FetchResolves(res) == TRUE

\* new URL throws on the Location of res: onResponse rejects after sendProxy
\* copied the headers and after the hop-by-hop headers were cleared and the
\* Link was set, and the catch of proxyStorefrontRequest sends the error,
\* which has no status, on the response as it stands.
PatchThrows(r, res) ==
  /\ pc' = [pc EXCEPT ![r] = "failed"]
  /\ warned' = [warned EXCEPT ![r] = ShouldWarn(event[r].path, NoError)]
  /\ response' = [response EXCEPT ![r] =
       [ kind |-> "error",
         status |-> 500,
         setCookie |-> res.setCookie,
         headers |-> clearResponseHeaders(SendProxyHeaders(res.headers), HOP_BY_HOP_HEADERS),
         link |-> PatchedLink(res.link),
         location |-> res.location,
         body |-> <<>> ]]
  /\ UNCHANGED <<sessionCookies, observed, latest>>

\* The upstream answers request r with the HTTP response res.
UpstreamResponds(r, res) ==
  /\ pc[r] = "proxying"
  /\ fetched' = [fetched EXCEPT ![r] =
       [NotFetched EXCEPT !.kind = "response", !.status = res.status,
                          !.setCookie = res.setCookie, !.headers = res.headers,
                          !.link = res.link, !.location = res.location,
                          !.body = res.body]]
  /\ IF ~FetchResolves(res)
     THEN Catch(r, [hasStatus |-> TRUE, statusCode |-> res.status])
     ELSE IF LocationThrows(res.location)
     THEN PatchThrows(r, res)
     ELSE Relay(r, res)
  /\ UNCHANGED <<event, upstream, cdn>>

\* sendProxy rejects with error: the upstream could not be reached (h3 throws
\* a 502 error with the cause), or an exception without a status was thrown.
UpstreamFails(r, error) ==
  /\ pc[r] = "proxying"
  /\ fetched' = [fetched EXCEPT ![r] = [NotFetched EXCEPT !.kind = "rejected", !.error = error]]
  /\ Catch(r, error)
  /\ UNCHANGED <<event, upstream, cdn>>

\* removeResponseHeader(event, name)
removeResponseHeaderKeepsIt(headers, name) == headers

removeResponseHeader(headers, name) == headers \ {name}

\* patchRenderingResponse on the response res that the renderer fetched for
\* request r, which getProxyHandler passed on, up to its await: the status
\* and all the headers are copied, and the headers are patched. When new URL
\* throws on the Location the function rejects and the server answers 500.
PatchRenderingResponse(r, res) ==
  /\ pc[r] = "next"
  /\ fetched' = [fetched EXCEPT ![r] =
       [NotFetched EXCEPT !.kind = "response", !.status = res.status,
                          !.setCookie = res.setCookie, !.headers = res.headers,
                          !.link = res.link, !.location = res.location,
                          !.body = res.body]]
  /\ IF LocationThrows(res.location)
     THEN /\ pc' = [pc EXCEPT ![r] = "threw"]
          /\ response' = [response EXCEPT ![r] =
               [NoResponse EXCEPT !.kind = "error", !.status = 500]]
          /\ UNCHANGED <<sessionCookies, observed, latest>>
     ELSE /\ pc' = [pc EXCEPT ![r] = "reading"]
          /\ response' = [response EXCEPT ![r] =
               [ kind |-> "pending",
                 status |-> res.status,
                 setCookie |-> patchCookieDomains(res.setCookie),
                 headers |-> clearResponseHeaders(res.headers, HOP_BY_HOP_HEADERS),
                 link |-> PatchedLink(res.link),
                 location |-> IF res.location \in {undefined, <<>>} THEN res.location
                              ELSE PatchedLocation(res.location),
                 body |-> <<>> ]]
          /\ sessionCookies' = PatchedSession(sessionCookies, res.setCookie)
          /\ observed' = observed \cup CarriedSessions(res.setCookie)
          /\ latest' = IF CarriedSessions(res.setCookie) = {} THEN latest
                       ELSE CarriedSessions(res.setCookie)
  /\ UNCHANGED <<event, upstream, warned, cdn>>

\* patchRenderingResponse after response.text() resolved with the decoded
\* body: content-encoding is removed, the body goes through injectCdnProxy
\* and then patchBaseUrlAttributes, and the function returns it.
BodyDecoded(r) ==
  /\ pc[r] = "reading"
  /\ pc' = [pc EXCEPT ![r] = "returned"]
  /\ response' = [response EXCEPT
       ![r].headers = removeResponseHeader(@, "content-encoding"),
       ![r].body = patchBaseUrlAttributes(
                     injectCdnProxy(fetched[r].body, cdn.themeFiles, cdn.extFiles))]
  /\ UNCHANGED <<event, upstream, fetched, warned, sessionCookies, observed, latest, cdn>>

\* The caller of patchRenderingResponse sends the returned html with the
\* status and the headers set on the event.
Finalize(r) ==
  /\ pc[r] = "returned"
  /\ pc' = [pc EXCEPT ![r] = "finalized"]
  /\ response' = [response EXCEPT ![r].kind = "html"]
  /\ UNCHANGED <<event, upstream, fetched, warned, sessionCookies, observed, latest, cdn>>

\* The content rewriter is run on cdn.content, and run again on its output.
NoCdn ==
  [ phase |-> "off", themeFiles |-> {}, extFiles |-> {}, content |-> <<>>,
    calls |-> <<>>, once |-> <<>>, twice |-> <<>> ]

Rewrite ==
  /\ cdn.phase = "input"
  /\ cdn' = [cdn EXCEPT
       !.phase = "once",
       !.calls = MainCdnCalls(ReplaceVanityCdn(cdn.content), 1, cdn.themeFiles, cdn.extFiles),
       !.once = injectCdnProxy(cdn.content, cdn.themeFiles, cdn.extFiles)]
  /\ UNCHANGED <<pc, event, upstream, fetched, response, warned, sessionCookies, observed, latest>>

RewriteAgain ==
  /\ cdn.phase = "once"
  /\ cdn' = [cdn EXCEPT
       !.phase = "twice",
       !.twice = injectCdnProxy(cdn.once, cdn.themeFiles, cdn.extFiles)]
  /\ UNCHANGED <<pc, event, upstream, fetched, response, warned, sessionCookies, observed, latest>>

(***************************************************************************)
(* Inputs.                                                                 *)
(***************************************************************************)
Methods == {"GET", "POST", "HEAD"}

Accepts == { undefined, <<"*","/","*">>, <<"a","p","p","l","i","c","a","t","i","o","n","/","j","s","o","n">>, <<"t","e","x","t","/","h","t","m","l",",","*","/","*",";","q","=","0",".","8">> }

PathFragments ==
  { <<"/","c","d","n","/">>, <<"/","e","x","t","/","c","d","n","/">>,
    <<"/",".","w","e","l","l","-","k","n","o","w","n">>, <<"/","s","h","o","p","i","f","y","/","m","o","n","o","r","a","i","l">>, <<"/","m","i","n","i","-","p","r","o","f","i","l","e","r","-","r","e","s","o","u","r","c","e","s">>,
    <<"/","w","e","b","-","p","i","x","e","l","s","-","m","a","n","a","g","e","r">>, <<"/","w","p","m">>, <<"/","s","e","r","v","i","c","e","s","/">>, <<"/","s","e","r","v","i","c","e","s">>,
    <<"/","p","a","g","e">>, <<"/","i","n","d","e","x",".","h","t","m","l">>, <<"/","a","p","p",".","j","s">>, <<"/","a","p","p",".","j","s",".","m","a","p">>,
    <<"/","s","e","a","r","c","h","/","s","u","g","g","e","s","t">>, <<"/","p","a","y","m","e","n","t","s","/","c","o","n","f","i","g">>, <<"/","c","h","e","c","k","o","u","t">>,
    <<"?","q","=","a",".","h","t","m","l">>, <<"?","_","f","d","=","1","&","p","b","=","1","&","q","=","b">> }

\* The request paths: a fragment that starts a path, then fragments in any order.
Paths ==
  { Concat(parts) : parts \in
      { ps \in SeqsUpTo(PathFragments, MaxPathParts) : ps[1][1] = "/" } }

\* What a browser sends besides the method, the path and Accept.
Clients ==
  { [ cookie |-> undefined, headers |-> {"host", "accept", "user-agent"}, ip |-> undefined ],
    [ cookie |-> <<"a","=","1">>,
      headers |-> {"host", "connection", "cookie", "upgrade-insecure-requests", "accept-language"},
      ip |-> <<"1","2","7",".","0",".","0",".","1">> ] }

Event(method, path, accept, client) ==
  [ method |-> method, path |-> path, accept |-> accept,
    cookie |-> client.cookie, headers |-> client.headers, ip |-> client.ip ]

ClassifyEvents ==
  { Event(m, p, a, c) : m \in Methods, p \in Paths, a \in Accepts, c \in Clients }

(***************************************************************************)
(* Specifications.                                                         *)
(***************************************************************************)
InitRequests(n) ==
  /\ pc = [r \in 1..n |-> "idle"]
  /\ event = [r \in 1..n |-> NoEvent]
  /\ upstream = [r \in 1..n |-> NoUpstream]
  /\ fetched = [r \in 1..n |-> NotFetched]
  /\ response = [r \in 1..n |-> NoResponse]
  /\ warned = [r \in 1..n |-> FALSE]
  /\ sessionCookies = undefined
  /\ observed = {}
  /\ latest = {}

\* One request of any method, path and Accept through getProxyHandler.
InitClassify == InitRequests(1) /\ cdn = NoCdn

NextClassify == pc[1] = "idle" /\ \E e \in ClassifyEvents : HandleRequest(1, e)

SpecClassify == InitClassify /\ [][NextClassify]_vars

\* The Set-Cookie values an upstream response may carry.
SetCookieValues ==
  { <<"_","s","h","o","p","i","f","y","_","e","s","s","e","n","t","i","a","l","=","a","b","c","1","2","3",";"," ","D","o","m","a","i","n","=","s","h","o","p",".","m","y","s","h","o","p","i","f","y",".","c","o","m",";"," ","P","a","t","h","=","/">>,
    <<"_","s","h","o","p","i","f","y","_","e","s","s","e","n","t","i","a","l","=","d","e","f",";"," ","P","a","t","h","=","/",";"," ","D","o","m","a","i","n","=","s","h","o","p",".","m","y","s","h","o","p","i","f","y",".","c","o","m">>,
    <<"_","s","h","o","p","i","f","y","_","e","s","s","e","n","t","i","a","l","=","x","y","z">>,
    <<"_","s","h","o","p","i","f","y","_","e","s","s","e","n","t","i","a","l","=",";"," ","M","a","x","-","A","g","e","=","0">>,
    <<"c","a","r","t","=","1",";"," ","D","O","M","A","I","N","=","S","h","o","p",".","M","y","S","h","o","p","i","f","y",".","c","o","m",";"," "," ","P","a","t","h","=","/">>,
    <<"c","a","r","t","=","2",";"," ","D","o","m","a","i","n","=","o","t","h","e","r",".","e","x","a","m","p","l","e",";"," ","P","a","t","h","=","/">>,
    <<"o","t","h","e","r","=","1",";"," ","P","a","t","h","=","/">> }

SetCookieLists == {<<>>} \cup SeqsUpTo(SetCookieValues, MaxCookies)

Statuses == {200, 302, 404, 503}

\* An upstream response with a status and Set-Cookie values, no Link and no
\* Location.
Response(status, setCookie) ==
  [ status |-> status, setCookie |-> setCookie,
    headers |-> {"content-type", "content-length"},
    link |-> undefined, location |-> undefined, body |-> <<>> ]

Responses == { Response(s, l) : s \in Statuses, l \in SetCookieLists }

\* The errors sendProxy may reject with: an H3Error with its status code, or
\* an exception that has none.
Errors ==
  {NoError} \cup {[hasStatus |-> TRUE, statusCode |-> c] : c \in {404, 500, 502, 503}}

RelayEvents ==
  { Event(m, p, <<"a","p","p","l","i","c","a","t","i","o","n","/","j","s","o","n">>, c) :
      m \in {"GET", "POST"},
      p \in {<<"/","c","h","e","c","k","o","u","t">>, <<"/","a","s","s","e","t","s","/","a","p","p",".","j","s",".","m","a","p">>, <<"/","a","s","s","e","t","s","/","a","p","p",".","j","s",".","m","a","p","?","v","=","1">>, <<"/","w","p","m","/","a","p","p",".","j","s">>},
      c \in Clients }

\* One request through getProxyHandler and sendProxy, whatever the upstream does.
InitRelay == InitRequests(1) /\ cdn = NoCdn

NextRelay ==
  \/ pc[1] = "idle" /\ \E e \in RelayEvents : HandleRequest(1, e)
  \/ pc[1] = "proxying" /\ \E res \in Responses : UpstreamResponds(1, res)
  \/ pc[1] = "proxying" /\ \E error \in Errors : UpstreamFails(1, error)

SpecRelay == InitRelay /\ [][NextRelay]_vars

\* Concurrent requests that share ctx.session: each step of a handler between
\* two suspension points is atomic, and the steps of different requests
\* interleave in any order.
SessionSetCookieLists ==
  {<<>>} \cup
  SeqsUpTo({ <<"_","s","h","o","p","i","f","y","_","e","s","s","e","n","t","i","a","l","=","a","b","c","1","2","3",";"," ","D","o","m","a","i","n","=","s","h","o","p",".","m","y","s","h","o","p","i","f","y",".","c","o","m",";"," ","P","a","t","h","=","/">>,
             <<"_","s","h","o","p","i","f","y","_","e","s","s","e","n","t","i","a","l","=","x","y","z">>,
             <<"o","t","h","e","r","=","1",";"," ","P","a","t","h","=","/">> }, MaxCookies)

SessionEvents == { Event("GET", <<"/","c","h","e","c","k","o","u","t">>, <<"a","p","p","l","i","c","a","t","i","o","n","/","j","s","o","n">>, c) : c \in Clients }

Init == InitRequests(MaxRequests) /\ cdn = NoCdn

Next ==
  \E r \in 1..MaxRequests :
    \/ pc[r] = "idle" /\ \E e \in SessionEvents : HandleRequest(r, e)
    \/ pc[r] = "proxying" /\ \E l \in SessionSetCookieLists :
         UpstreamResponds(r, Response(200, l))
    \/ pc[r] = "proxying" /\ UpstreamFails(r, [hasStatus |-> TRUE, statusCode |-> 502])

Spec == Init /\ [][Next]_vars

\* The content rewriter on a text, and again on its output.
CdnFragments ==
  { <<"h","t","t","p","s",":">>,
    <<"/","/","c","d","n",".","s","h","o","p","i","f","y",".","c","o","m","/">>,
    <<"/","/","s","h","o","p",".","m","y","s","h","o","p","i","f","y",".","c","o","m","/","c","d","n","/">>,
    <<"s","/","f","i","l","e","s","/","1","/","a","s","s","e","t","s","/","t","h","e","m","e",".","c","s","s">>,
    <<"s","/","f","i","l","e","s","/","1","/","a","s","s","e","t","s","/","l","o","g","o",".","p","n","g">>,
    <<"s","/","f","i","l","e","s","/","1","/","a","s","s","e","t","s","/","e","x","t",".","j","s">>,
    <<"e","x","t","e","n","s","i","o","n","s","/","9","/","a","s","s","e","t","s","/","e","x","t",".","j","s">>,
    <<"e","x","t","e","n","s","i","o","n","s","/","9","/","a","s","s","e","t","s","/","t","h","e","m","e",".","c","s","s">>,
    <<"\"">>,
    <<"\n">> }

CdnTexts == { Concat(parts) : parts \in SeqsUpTo(CdnFragments, MaxCdnParts) }

ThemeFileSets == { {}, { <<"a","s","s","e","t","s","/","t","h","e","m","e",".","c","s","s">>, <<"a","s","s","e","t","s","/","l","o","g","o",".","p","n","g">>, <<"t","e","m","p","l","a","t","e","s","/","i","n","d","e","x",".","j","s","o","n">> } }

ExtFileSets == { {}, { <<"a","s","s","e","t","s","/","e","x","t",".","j","s">>, <<"a","s","s","e","t","s","/","t","h","e","m","e",".","c","s","s">>, <<"b","l","o","c","k","s","/","a","p","p",".","l","i","q","u","i","d">> } }

InitCdn ==
  /\ InitRequests(0)
  /\ cdn \in { [NoCdn EXCEPT !.phase = "input", !.themeFiles = t, !.extFiles = x, !.content = c] :
                 t \in ThemeFileSets, x \in ExtFileSets, c \in CdnTexts }

NextCdn == Rewrite \/ RewriteAgain

SpecCdn == InitCdn /\ [][NextCdn]_vars

\* The requests and the upstream responses of the header patcher: inbound
\* headers of every kind, and a Location made of an origin, a path, a query
\* and a fragment.
HeaderClients ==
  Clients \cup
  { [ cookie |-> undefined,
      headers |-> {"host", "accept", "accept-encoding", "expect", "te", "trailer",
                   "proxy-authorization", "proxy-authenticate", "keep-alive",
                   "upgrade", "transfer-encoding", "content-security-policy",
                   "content-type", "referer"},
      ip |-> <<"1","0",".","0",".","0",".","7">> ],
    [ cookie |-> <<"a","=","1">>,
      headers |-> {"cookie", "connection", "upgrade-insecure-requests", "user-agent"},
      ip |-> undefined ] }

HeaderEvents ==
  { Event(m, <<"/","c","h","e","c","k","o","u","t">>, <<"a","p","p","l","i","c","a","t","i","o","n","/","j","s","o","n">>, c) : m \in {"GET", "POST"}, c \in HeaderClients }

ResponseHeaderSets ==
  { {"content-type", "content-length"},
    {"content-type", "content-encoding", "connection", "keep-alive", "transfer-encoding",
     "content-security-policy", "upgrade", "cache-control"},
    {"proxy-authenticate", "proxy-authorization", "te", "trailer", "etag", "vary"} }

LocationOrigins ==
  { <<>>,
    <<"h","t","t","p","s",":","/","/","s","h","o","p",".","m","y","s","h","o","p","i","f","y",".","c","o","m">>,
    <<"h","t","t","p",":","/","/","S","H","O","P",".","m","y","s","h","o","p","i","f","y",".","c","o","m",":","8","0">>,
    <<"h","t","t","p","s",":","/","/","u","s","e","r","@","s","h","o","p",".","m","y","s","h","o","p","i","f","y",".","c","o","m">>,
    <<"h","t","t","p","s",":","/","/","o","t","h","e","r",".","e","x","a","m","p","l","e",":","8","4","4","3">>,
    <<"/","/","o","t","h","e","r",".","e","x","a","m","p","l","e">>,
    <<"h","t","t","p","s",":">>,
    <<"h","t","t","p","s",":","/","/">>,
    <<"m","y","a","p","p",":">> }

LocationPaths == { <<>>, <<"/","c","a","r","t">>, <<"c","a","r","t">>, <<"/","a","/","b",".","h","t","m","l">>, <<"/","/","e","v","i","l",".","e","x","a","m","p","l","e","/","x">> }

LocationQueries == { <<>>, <<"?","_","f","d","=","1","&","p","b","=","0">>, <<"?","q","=","1","&","_","f","d","=","1">>, <<"?","p","b","=","1","&","q","=","a","&","p","b","=","2","&","r">> }

LocationFragments == { <<>>, <<"#","t","o","p">> }

Locations ==
  { o \o p \o q \o f : o \in LocationOrigins, p \in LocationPaths,
                       q \in LocationQueries, f \in LocationFragments } \ {<<>>}

Links == { undefined, <<"<","h","t","t","p","s",":","/","/","c","d","n",".","s","h","o","p","i","f","y",".","c","o","m","/","s","/","f","i","l","e","s","/","1","/","a","s","s","e","t","s","/","t","h","e","m","e",".","c","s","s",">",";"," ","r","e","l","=","p","r","e","l","o","a","d">> }

HeaderResponses ==
  { [ status |-> st, setCookie |-> <<>>, headers |-> h, link |-> l, location |-> loc,
      body |-> <<>> ] :
      st \in {200, 302}, h \in ResponseHeaderSets, l \in Links,
      loc \in {undefined} \cup Locations }

\* One request through getProxyHandler and sendProxy, with the files of the
\* theme in ctx.
InitHeaders ==
  /\ InitRequests(1)
  /\ cdn = [NoCdn EXCEPT !.themeFiles = {<<"a","s","s","e","t","s","/","t","h","e","m","e",".","c","s","s">>}]

NextHeaders ==
  \/ pc[1] = "idle" /\ \E e \in HeaderEvents : HandleRequest(1, e)
  \/ pc[1] = "proxying" /\ \E res \in HeaderResponses : UpstreamResponds(1, res)
  \/ pc[1] = "proxying" /\ UpstreamFails(1, [hasStatus |-> TRUE, statusCode |-> 502])

SpecHeaders == InitHeaders /\ [][NextHeaders]_vars

\* The pages the renderer fetches: a status, headers, Set-Cookie values, a
\* Location, and a body with CDN URLs and data-base-url attributes.
RenderBodies ==
  { <<"<","h","t","m","l"," ","d","a","t","a","-","b","a","s","e","-","u","r","l","=","\"","h","t","t","p","s",":","/","/","s","h","o","p",".","m","y","s","h","o","p","i","f","y",".","c","o","m","/","\"",">","<","l","i","n","k"," ","h","r","e","f","=","\"","/","/","s","h","o","p",".","m","y","s","h","o","p","i","f","y",".","c","o","m","/","c","d","n","/","s","h","o","p","/","t","/","1","/","a","s","s","e","t","s","/","t","h","e","m","e",".","c","s","s","\"",">">>,
    <<"<","d","i","v"," ","d","a","t","a","-","b","a","s","e","-","u","r","l","=","'","/","/","s","h","o","p",".","m","y","s","h","o","p","i","f","y",".","c","o","m","/","c","d","n","/","'",">","<","/","d","i","v",">","<","s","c","r","i","p","t"," ","s","r","c","=","\"","h","t","t","p","s",":","/","/","c","d","n",".","s","h","o","p","i","f","y",".","c","o","m","/","s","/","f","i","l","e","s","/","1","/","a","s","s","e","t","s","/","t","h","e","m","e",".","c","s","s","\"",">">>,
    <<"<","p",">","n","o","t"," ","f","o","u","n","d","<","/","p",">">> }

RenderResponses ==
  { [ status |-> 200, setCookie |-> << <<"_","s","h","o","p","i","f","y","_","e","s","s","e","n","t","i","a","l","=","a","b","c","1","2","3",";"," ","D","o","m","a","i","n","=","s","h","o","p",".","m","y","s","h","o","p","i","f","y",".","c","o","m",";"," ","P","a","t","h","=","/">> >>,
      headers |-> {"content-type", "content-encoding", "content-length", "content-security-policy"},
      link |-> undefined, location |-> undefined, body |-> b ] : b \in RenderBodies }
  \cup
  { [ status |-> 404, setCookie |-> << <<"_","s","h","o","p","i","f","y","_","e","s","s","e","n","t","i","a","l","=","x","y","z">> >>,
      headers |-> {"content-type", "transfer-encoding"},
      link |-> undefined, location |-> undefined, body |-> <<"<","p",">","n","o","t"," ","f","o","u","n","d","<","/","p",">">> ],
    [ status |-> 302, setCookie |-> <<>>, headers |-> {"content-type", "content-encoding"},
      link |-> undefined, location |-> <<"h","t","t","p","s",":","/","/","s","h","o","p",".","m","y","s","h","o","p","i","f","y",".","c","o","m","/","c","a","r","t","?","_","f","d","=","1","&","p","b","=","0">>,
      body |-> <<>> ],
    [ status |-> 302, setCookie |-> <<>>, headers |-> {"content-type"},
      link |-> undefined, location |-> <<"h","t","t","p","s",":","/","/">>, body |-> <<>> ] }

RenderEvents ==
  { Event("GET", <<"/","p","a","g","e">>, <<"t","e","x","t","/","h","t","m","l",",","*","/","*",";","q","=","0",".","8">>, c) : c \in {k \in Clients : k.ip # undefined} }

\* Concurrent page requests that getProxyHandler passes on to the renderer:
\* the steps of patchRenderingResponse between two suspension points are
\* atomic, and the steps of different requests interleave in any order.
InitRender ==
  /\ InitRequests(MaxRequests)
  /\ cdn = [NoCdn EXCEPT !.themeFiles = {<<"a","s","s","e","t","s","/","t","h","e","m","e",".","c","s","s">>}]

NextRender ==
  \E r \in 1..MaxRequests :
    \/ pc[r] = "idle" /\ \E e \in RenderEvents : HandleRequest(r, e)
    \/ pc[r] = "next" /\ \E res \in RenderResponses : PatchRenderingResponse(r, res)
    \/ BodyDecoded(r)
    \/ Finalize(r)

SpecRender == InitRender /\ [][NextRender]_vars

(***************************************************************************)
(* Properties.                                                             *)
(***************************************************************************)
\* The ignored prefixes as the specification lists them.
StartsWithIgnoredPrefix(path) ==
  \/ startsWith(path, <<"/",".","w","e","l","l","-","k","n","o","w","n">>)
  \/ startsWith(path, <<"/","s","h","o","p","i","f","y","/","m","o","n","o","r","a","i","l">>)
  \/ startsWith(path, <<"/","m","i","n","i","-","p","r","o","f","i","l","e","r","-","r","e","s","o","u","r","c","e","s">>)
  \/ startsWith(path, <<"/","w","e","b","-","p","i","x","e","l","s","-","m","a","n","a","g","e","r">>)
  \/ startsWith(path, <<"/","w","p","m">>)
  \/ startsWith(path, <<"/","s","e","r","v","i","c","e","s","/">>)

Handled(r) == pc[r] # "idle"

\* proxyStorefrontRequest was called for request r.
HandedToForwarder(r) == pc[r] \in {"proxying", "relayed", "failed", "threw"}

Mocked(r) ==
  /\ pc[r] = "mocked"
  /\ response[r] = [NoResponse EXCEPT !.kind = "mock204", !.status = 204]
  /\ ~upstream[r].sent

\* C1, as stated: every request of a method other than GET is forwarded
\* upstream, whatever its path (ignored prefixes included) and its Accept.
C1_NonGetAlwaysForwarded ==
  \A r \in DOMAIN pc :
    (Handled(r) /\ event[r].method # "GET") => upstream[r].sent

\* C1, amended: a request of a method other than GET whose path starts with
\* no ignored prefix is handed to the forwarder whatever its path and Accept,
\* and is sent upstream whenever its upstream URL can be built; one whose path
\* starts with an ignored prefix gets the mocked 204 and is not forwarded.
C1_NonGetForwardedUnlessIgnored ==
  \A r \in DOMAIN pc :
    (Handled(r) /\ event[r].method # "GET") =>
      IF StartsWithIgnoredPrefix(event[r].path)
      THEN Mocked(r)
      ELSE /\ HandedToForwarder(r)
           /\ upstream[r].sent <=> pc[r] # "threw"
           /\ pc[r] = "threw" <=> ~UpstreamURL(event[r].path).ok

C1_Witness ==
  \E r \in DOMAIN pc :
    /\ event[r].method = "POST"
    /\ event[r].path = <<"/","p","a","g","e","/","i","n","d","e","x",".","h","t","m","l">>
    /\ event[r].accept = <<"t","e","x","t","/","h","t","m","l",",","*","/","*",";","q","=","0",".","8">>
    /\ upstream[r].sent

\* C2: a request whose path starts with an ignored prefix, whatever its
\* method and Accept, is answered with the empty mocked 204 and no upstream
\* request is issued for it.
C2_IgnoredIsMocked ==
  \A r \in DOMAIN pc :
    (Handled(r) /\ StartsWithIgnoredPrefix(event[r].path)) => Mocked(r)

C2_Witness ==
  \E r \in DOMAIN pc :
    /\ event[r].method = "POST"
    /\ event[r].path = <<"/","s","e","r","v","i","c","e","s","/","a","p","p",".","j","s">>
    /\ event[r].accept = <<"a","p","p","l","i","c","a","t","i","o","n","/","j","s","o","n">>
    /\ Mocked(r)

\* C3: the decision for a GET request on a path that is not ignored.
GetIsForwarded(path, accept) ==
  IF startsWith(path, <<"/","c","d","n","/">>) \/ startsWith(path, <<"/","e","x","t","/","c","d","n","/">>) THEN TRUE
  ELSE LET q == IndexOfFrom(path, <<"?">>, 1)
           stripped == IF q = 0 THEN path ELSE SubSeq(path, 1, q - 1)
           extension == extname(stripped)
           acceptHeader == IF accept = undefined THEN <<"*","/","*">> ELSE accept
       IN  IF extension = <<".","h","t","m","l">> \/ includes(acceptHeader, <<"t","e","x","t","/","h","t","m","l">>) THEN FALSE
           ELSE extension # <<>> \/ acceptHeader # <<"*","/","*">>

\* C3: every GET request on a path that starts with no ignored prefix is
\* either handed to the forwarder or left to the local handler, and it is
\* forwarded exactly when the rule of the specification says so; the three
\* examples of the specification are decided as it says.
C3_GetDecision ==
  \A r \in DOMAIN pc :
    (Handled(r) /\ event[r].method = "GET" /\ ~StartsWithIgnoredPrefix(event[r].path)) =>
      /\ HandedToForwarder(r) \/ pc[r] = "next"
      /\ HandedToForwarder(r) <=> GetIsForwarded(event[r].path, event[r].accept)
      /\ (event[r].path = <<"/","p","a","g","e","/","i","n","d","e","x",".","h","t","m","l">> /\ event[r].accept = <<"*","/","*">>) => pc[r] = "next"
      /\ (event[r].path = <<"/","s","e","a","r","c","h","/","s","u","g","g","e","s","t">> /\ event[r].accept = <<"*","/","*">>) => pc[r] = "next"
      /\ (event[r].path = <<"/","p","a","y","m","e","n","t","s","/","c","o","n","f","i","g">> /\ event[r].accept = <<"a","p","p","l","i","c","a","t","i","o","n","/","j","s","o","n">>)
           => upstream[r].sent

C3_Witness ==
  \E r \in DOMAIN pc :
    /\ event[r].method = "GET"
    /\ event[r].path = <<"/","p","a","g","e","?","q","=","a",".","h","t","m","l">>
    /\ event[r].accept = <<"a","p","p","l","i","c","a","t","i","o","n","/","j","s","o","n">>
    /\ upstream[r].sent

\* C4, as stated: injectCdnProxy applied to its own output returns that
\* output unchanged, for every text, store domain and pair of file sets.
C4_RewriteIsIdempotent == cdn.phase = "twice" => cdn.twice = cdn.once

\* The rule of the specification for one matched main-CDN URL with sub-path P
\* and asset key K.
RewrittenUrl(url, P, K, themeAssets, extAssets) ==
  IF startsWith(lookupMimeType(K), <<"i","m","a","g","e","/">>) THEN url
  ELSE IF startsWith(P, <<"e","x","t","e","n","s","i","o","n","s","/">>) /\ K \in extAssets THEN <<"/","e","x","t","/","c","d","n","/">> \o P
  ELSE IF K \in themeAssets THEN <<"/","c","d","n","/">> \o P
  ELSE url

\* C5: every main-CDN URL matched in a text is replaced as the rule of the
\* specification says, image first, extension asset second, theme asset
\* third; the theme.css URL of the specification becomes a /cdn/ path and
\* the URL of a local image stays as it is.
C5_MainCdnRule ==
  cdn.phase \in {"once", "twice"} =>
    /\ \A k \in 1..Len(cdn.calls) :
         LET call == cdn.calls[k]
         IN  /\ includes(call.matchedUrl, <<"/","/","c","d","n",".","s","h","o","p","i","f","y",".","c","o","m","/">>)
             /\ startsWith(call.matchedAsset, <<"a","s","s","e","t","s","/">>)
             /\ call.result = RewrittenUrl(call.matchedUrl, call.pathname, call.matchedAsset,
                                           cdn.themeFiles, cdn.extFiles)
    /\ (cdn.content = <<"h","t","t","p","s",":","/","/","c","d","n",".","s","h","o","p","i","f","y",".","c","o","m","/","s","/","f","i","l","e","s","/","1","/","a","s","s","e","t","s","/","t","h","e","m","e",".","c","s","s">>
          /\ <<"a","s","s","e","t","s","/","t","h","e","m","e",".","c","s","s">> \in cdn.themeFiles)
         => cdn.once = <<"/","c","d","n","/","s","/","f","i","l","e","s","/","1","/","a","s","s","e","t","s","/","t","h","e","m","e",".","c","s","s">>
    /\ (cdn.content = <<"h","t","t","p","s",":","/","/","c","d","n",".","s","h","o","p","i","f","y",".","c","o","m","/","s","/","f","i","l","e","s","/","1","/","a","s","s","e","t","s","/","l","o","g","o",".","p","n","g">>
          /\ <<"a","s","s","e","t","s","/","l","o","g","o",".","p","n","g">> \in cdn.themeFiles)
         => cdn.once = cdn.content

C5_Witness ==
  /\ cdn.phase = "once"
  /\ cdn.content = <<"/","/","c","d","n",".","s","h","o","p","i","f","y",".","c","o","m","/","e","x","t","e","n","s","i","o","n","s","/","9","/","a","s","s","e","t","s","/","t","h","e","m","e",".","c","s","s","\"">>
  /\ <<"a","s","s","e","t","s","/","t","h","e","m","e",".","c","s","s">> \in cdn.themeFiles
  /\ <<"a","s","s","e","t","s","/","t","h","e","m","e",".","c","s","s">> \in cdn.extFiles
  /\ cdn.once = <<"/","e","x","t","/","c","d","n","/","e","x","t","e","n","s","i","o","n","s","/","9","/","a","s","s","e","t","s","/","t","h","e","m","e",".","c","s","s","\"">>

\* The attributes of a Set-Cookie value: its pieces between ";", without
\* their leading spaces.
RECURSIVE TrimAll(_)
TrimAll(pieces) ==
  IF pieces = <<>> THEN <<>> ELSE <<TrimStart(Head(pieces))>> \o TrimAll(Tail(pieces))

Attributes(value) == TrimAll(split(value, <<";">>))

IsStoreDomainAttribute(attribute) ==
  toLowerCase(attribute) = <<"d","o","m","a","i","n","=","s","h","o","p",".","m","y","s","h","o","p","i","f","y",".","c","o","m">>

RECURSIVE WithoutStoreDomain(_)
WithoutStoreDomain(attributes) ==
  IF attributes = <<>> THEN <<>>
  ELSE IF IsStoreDomainAttribute(Head(attributes)) THEN WithoutStoreDomain(Tail(attributes))
  ELSE <<Head(attributes)>> \o WithoutStoreDomain(Tail(attributes))

\* C6, as stated: of a relayed response that carries Set-Cookie values, as
\* many values are emitted, in the same order, none has a Domain attribute
\* of the store domain any more, wherever it stood, and every other attribute
\* is kept.
C6_CookiesAreHostOnly ==
  \A r \in DOMAIN pc :
    (response[r].kind = "relay" /\ fetched[r].setCookie # <<>>) =>
      /\ Len(response[r].setCookie) = Len(fetched[r].setCookie)
      /\ \A k \in 1..Len(fetched[r].setCookie) :
           LET emitted == Attributes(response[r].setCookie[k])
           IN  /\ \A n \in 1..Len(emitted) : ~IsStoreDomainAttribute(emitted[n])
               /\ emitted = WithoutStoreDomain(Attributes(fetched[r].setCookie[k]))

\* C7, as stated: the stored session value is the one the last response that
\* carried a session cookie carried, it is always a value that an observed
\* Set-Cookie carried, and a forwarded request carries the value stored when
\* it was sent.
C7_SessionFollowsSetCookie ==
  /\ latest # {} => sessionCookies \in latest
  /\ sessionCookies # undefined => sessionCookies \in observed
  /\ \A r \in DOMAIN pc :
       (upstream[r].sent /\ upstream[r].session # undefined) =>
         \E k \in 1..Len(parseCookies(upstream[r].cookie)) :
           parseCookies(upstream[r].cookie)[k] = <<SESSION_COOKIE_NAME, upstream[r].session>>

\* The request path without its query string ends in .js.map.
IsSourceMap(path) ==
  LET q == IndexOfFrom(path, <<"?">>, 1)
      stripped == IF q = 0 THEN path ELSE SubSeq(path, 1, q - 1)
  IN  endsWith(stripped, <<".","j","s",".","m","a","p">>)

\* C8: when the upstream call of a forwarded request fails with an error, a
\* warning is emitted exactly when the error's status code is at least 500
\* and the path, query string stripped, does not end in .js.map; whatever the
\* status and the path, an error response is sent and the handler stops the
\* processing of the request.
C8_FailureHandling ==
  \A r \in DOMAIN pc :
    fetched[r].kind = "rejected" =>
      /\ warned[r] <=> /\ fetched[r].error.hasStatus
                       /\ fetched[r].error.statusCode >= 500
                       /\ ~IsSourceMap(event[r].path)
      /\ response[r].kind = "error"
      /\ pc[r] = "failed"
      /\ (fetched[r].error.hasStatus /\ fetched[r].error.statusCode = 503) =>
           /\ event[r].path = <<"/","c","h","e","c","k","o","u","t">> => warned[r]
           /\ event[r].path = <<"/","a","s","s","e","t","s","/","a","p","p",".","j","s",".","m","a","p">> => ~warned[r]

C8_Witness ==
  \E r \in DOMAIN pc :
    /\ fetched[r].kind = "rejected"
    /\ fetched[r].error = [hasStatus |-> TRUE, statusCode |-> 503]
    /\ event[r].path = <<"/","a","s","s","e","t","s","/","a","p","p",".","j","s",".","m","a","p","?","v","=","1">>
    /\ ~warned[r]
    /\ response[r].kind = "error"

UpstreamPathPrefixOnly(path) ==
  IF startsWith(path, <<"/","e","x","t","/","c","d","n","/">>)
  THEN <<"/">> \o From(path, Len(<<"/","e","x","t","/","c","d","n","/">>) + 1)
  ELSE path

\* The pairs of the inbound query string, in order.
InboundQuery(path) ==
  LET q == IndexOfFrom(path, <<"?">>, 1)
  IN  IF q = 0 THEN <<>> ELSE ParseQuery(From(path, q + 1))

\* C10, as stated: the upstream URL of a forwarded request is https, its host
\* is cdn.shopify.com when the inbound path starts with /ext/cdn/ and the
\* store domain otherwise, its path is the inbound path with only that
\* leading prefix mapped back to /, the inbound query is kept, and _fd and pb
\* are there once each with the value 0.
C10_UpstreamUrl ==
  \A r \in DOMAIN pc :
    upstream[r].sent =>
      LET url == upstream[r].url
          path == event[r].path
          others == DropName(DropName(url.searchParams, <<"_","f","d">>), <<"p","b">>)
      IN  /\ url.protocol = "https:"
          /\ url.host = IF startsWith(path, <<"/","e","x","t","/","c","d","n","/">>) THEN <<"c","d","n",".","s","h","o","p","i","f","y",".","c","o","m">>
                        ELSE <<"s","h","o","p",".","m","y","s","h","o","p","i","f","y",".","c","o","m">>
          /\ url.pathname = pathnameOf(UpstreamPathPrefixOnly(path))
          /\ others = DropName(DropName(InboundQuery(path), <<"_","f","d">>), <<"p","b">>)
          /\ Len(url.searchParams) = Len(others) + 2
          /\ \E k \in 1..Len(url.searchParams) : url.searchParams[k] = <<<<"_","f","d">>, <<"0">>>>
          /\ \E k \in 1..Len(url.searchParams) : url.searchParams[k] = <<<<"p","b">>, <<"0">>>>

\* The path, the query pairs and the fragment of a reference that starts
\* with its path.
ReferenceParts(ref) ==
  LET f == IndexOfFrom(ref, <<"#">>, 1)
      noFragment == IF f = 0 THEN ref ELSE SubSeq(ref, 1, f - 1)
      q == IndexOfFrom(noFragment, <<"?">>, 1)
  IN  [ pathname |-> IF q = 0 THEN noFragment ELSE SubSeq(noFragment, 1, q - 1),
        searchParams |-> IF q = 0 THEN <<>> ELSE ParseQuery(From(noFragment, q + 1)),
        hasFragment |-> f # 0,
        fragment |-> IF f = 0 THEN <<>> ELSE From(ref, f + 1) ]

\* The emitted Location is what the claim says of the Location original: it
\* starts with one slash and names no host, has no _fd and no pb, and has
\* the path, the other query pairs and the fragment of the original, read
\* against the base when it is relative.
IsLocalLocation(emitted, original) ==
  LET target == LocationURL(original)
      parts == ReferenceParts(emitted)
  IN  /\ startsWith(emitted, <<"/">>)
      /\ ~startsWith(emitted, <<"/","/">>)
      /\ \A k \in 1..Len(parts.searchParams) :
           parts.searchParams[k][1] \notin {<<"_","f","d">>, <<"p","b">>}
      /\ parts.pathname = target.pathname
      /\ parts.searchParams = DropName(DropName(target.searchParams, <<"_","f","d">>), <<"p","b">>)
      /\ parts.hasFragment = target.hasFragment
      /\ parts.fragment = target.fragment

\* C11, as stated: the Location of every relayed response whose upstream
\* response had one is a reference that starts with a slash and stays on the
\* origin of the caller, without _fd and pb, with the path, the other query
\* parameters and the fragment of the original; the Location of the
\* specification becomes /cart; and a response without Location gets none.
C11_LocationIsOriginRelative ==
  \A r \in DOMAIN pc :
    response[r].kind = "relay" =>
      /\ fetched[r].location = undefined => response[r].location = undefined
      /\ fetched[r].location # undefined =>
           IsLocalLocation(response[r].location, fetched[r].location)
      /\ fetched[r].location = <<"h","t","t","p","s",":","/","/","s","h","o","p",".","m","y","s","h","o","p","i","f","y",".","c","o","m","/","c","a","r","t","?","_","f","d","=","1","&","p","b","=","0">> =>
           response[r].location = <<"/","c","a","r","t">>

\* The nine headers of the claim, and the ten that no upstream request carries.
NineHeaders ==
  { "connection", "keep-alive", "proxy-authenticate", "proxy-authorization", "te",
    "trailer", "transfer-encoding", "upgrade", "content-security-policy" }

NeverSentUpstream == NineHeaders \cup {"upgrade-insecure-requests"}

\* The relayed response of request r carries none of the nine headers.
ResponseIsClean(r) ==
  response[r].kind = "relay" => response[r].headers \cap NineHeaders = {}

\* X-Forwarded-For is the IP of the caller, set exactly when the IP is known.
ForwardedForIsCallerIP(r) == upstream[r].xForwardedFor = event[r].ip

RenderSteps ==
  { <<"idle", "next">>, <<"next", "reading">>, <<"next", "threw">>,
    <<"reading", "returned">>, <<"returned", "finalized">> }

\* Request r is past the patching of its headers: the status is the one of
\* the page, none of the nine headers is left, and Set-Cookie and Location
\* are the patched ones.
HeadersArePatched(r) ==
  /\ response[r].status = fetched[r].status
  /\ response[r].headers \cap NineHeaders = {}
  /\ fetched[r].headers \ (NineHeaders \cup {"content-encoding"}) \subseteq response[r].headers
  /\ response[r].setCookie = patchCookieDomains(fetched[r].setCookie)
  /\ fetched[r].location # undefined => response[r].location = PatchedLocation(fetched[r].location)

\* What holds of request r at each step of its lifecycle.
RenderState(r) ==
  /\ pc[r] \in {"reading", "returned", "finalized"} => HeadersArePatched(r)
  /\ pc[r] = "reading" =>
       /\ response[r].body = <<>>
       /\ response[r].headers = fetched[r].headers \ NineHeaders
  /\ pc[r] \in {"returned", "finalized"} =>
       /\ "content-encoding" \notin response[r].headers
       /\ response[r].body =
            patchBaseUrlAttributes(
              injectCdnProxy(fetched[r].body, {<<"a","s","s","e","t","s","/","t","h","e","m","e",".","c","s","s">>}, {}))
  /\ response[r].kind = "html" <=> pc[r] = "finalized"
  /\ pc[r] \in {"reading", "returned"} => response[r].kind = "pending"

\* What a step does to request r: it moves r along RenderSteps, the session
\* cookie is captured in the step that patches the headers and in no later
\* step of r, and the status and the patched headers stay as they are once
\* the body is being read.
RenderStep(r) ==
  pc'[r] # pc[r] =>
    /\ <<pc[r], pc'[r]>> \in RenderSteps
    /\ <<pc[r], pc'[r]>> = <<"next", "reading">> =>
         sessionCookies' = PatchedSession(sessionCookies, fetched'[r].setCookie)
    /\ pc[r] \in {"reading", "returned"} =>
         /\ sessionCookies' = sessionCookies
         /\ fetched'[r] = fetched[r]
         /\ response'[r].status = response[r].status
         /\ response'[r].setCookie = response[r].setCookie
         /\ response'[r].location = response[r].location
         /\ response'[r].headers \subseteq response[r].headers
    /\ pc[r] = "returned" =>
         /\ response'[r].body = response[r].body
         /\ response'[r].headers = response[r].headers

\* C13: in every interleaving of page requests, each request has its status
\* and headers copied and patched, the session cookie captured, before its
\* body is read; content-encoding is gone once the body is decoded; the body
\* sent is the CDN rewrite and then the base-URL rewrite of the decoded text;
\* the response is sent only after that, and never with content-encoding.
C13_RenderOrder ==
  /\ [](\A r \in DOMAIN pc : RenderState(r))
  /\ [][\A r \in DOMAIN pc : RenderStep(r)]_vars

\* A page that came with content-encoding and a session cookie was sent,
\* rewritten by both rewrites, while another request was between its two
\* steps.
C13_Witness ==
  \E r, o \in DOMAIN pc :
    /\ r # o
    /\ pc[r] = "finalized"
    /\ pc[o] \in {"reading", "returned"}
    /\ "content-encoding" \in fetched[r].headers
    /\ fetched[r].setCookie # <<>>
    /\ response[r].body # fetched[r].body
    /\ response[r].body # injectCdnProxy(fetched[r].body, {<<"a","s","s","e","t","s","/","t","h","e","m","e",".","c","s","s">>}, {})
    /\ injectCdnProxy(fetched[r].body, {<<"a","s","s","e","t","s","/","t","h","e","m","e",".","c","s","s">>}, {}) # fetched[r].body

====
